---- MODULE Spec2Model ----
(***************************************************************************)
(* The terminal-session backend of src-tauri/src/backend/mod.rs: one       *)
(* Backend per session, owning a terminal model behind a FairMutex that it *)
(* shares with the background I/O driver (the pty event loop), a           *)
(* TerminalSize, a Notifier (the message channel to the driver) and the    *)
(* last-synchronised RenderableContent.                                    *)
(*                                                                         *)
(* A call of process_command or sync is a sequence of steps of the calling *)
(* thread: Call (entry), Lock (term.lock()), one Arm step (the match arm,  *)
(* up to the cursor read of internal_sync), Store (the two stores of       *)
(* internal_sync) and Return (the guard is dropped).  The driver thread    *)
(* locks the same model, feeds process output into it and unlocks, and     *)
(* takes the messages off the Notifier's channel.                          *)
(*                                                                         *)
(* The model's listener (EventProxy) sends events into a bounded queue     *)
(* with a blocking send, from whichever thread holds the model lock.       *)
(* start_term of src-tauri/src/commands.rs constructs a Backend step by    *)
(* step (pty, model and event loop, driver), stores it in the Terminal's   *)
(* slot or drops it again, and runs the event consumer and the render loop.*)
(***************************************************************************)
EXTENDS Integers, Sequences, FiniteSets, TLC

\* ------------------------------------------------------------- bounds
\* f32 values (layout pixels, font measures) are held as integers in units
\* of 1/FracDen, so that 51 with FracDen = 2 is 25.5
FracDen == 2
\* outputs the driver feeds into one model
MaxFeed == 2
\* messages waiting in one Notifier channel: a call starts only while the
\* driver has left fewer than this many in it
MaxChan == 2

\* ---------------------------------------------------------- constants
\* u16::MAX; the default counts; the bytes of Backend::scroll
U16Max == 65535
DefaultCols == 80
DefaultLines == 50
ESC == 27
LetterO == 79
LetterA == 65
LetterB == 66
\* the bytes of sgr_mouse_report: [ < ; M m, the digit 0 and the minus sign
LeftBracket == 91
LessThan == 60
Semicolon == 59
LetterM == 77
LetterSmallM == 109
Digit0 == 48
Minus == 45

\* ------------------------------------------------------------- values
Backends == {"b1", "b2"}

TermModes == SUBSET {"ALTERNATE_SCROLL", "ALT_SCREEN"}

Min(a, b) == IF a < b THEN a ELSE b

Max(a, b) == IF a < b THEN b ELSE a

Abs(n) == IF n < 0 THEN -n ELSE n

\* Size<f32>, in units of 1/FracDen
SizeF(w, h) == [width |-> w, height |-> h]

\* The layout sizes and font measures a caller passes: 25.5 x 10, 3 x 30
\* and 0 x 0 pixels of layout, cells of 10.5 x 5 pixels and of none
\* (start_term's font size)
LayoutSizes ==
    {SizeF(25 * FracDen + 1, 10 * FracDen), SizeF(3 * FracDen, 30 * FracDen), SizeF(0, 0)}

FontSizes == {SizeF(10 * FracDen + 1, 5 * FracDen), SizeF(0, 0)}

None == [none |-> TRUE]

Some(v) == [some |-> v]

Payloads == {<< >>, <<108, 115>>}

Deltas == {-2, 0, 1}

Titles == {"vim", "sh"}

\* alacritty_terminal::event::Event, as far as process_command tells them apart
Events ==
    {[event |-> "Wakeup"], [event |-> "Exit"], [event |-> "Bell"]}
    \cup {[event |-> "Title", title |-> t] : t \in Titles}
    \cup {[event |-> "ChildExit", code |-> 1]}

\* ------------------------------------------------------ BackendCommand
Write(bytes) == [kind |-> "Write", bytes |-> bytes]

Scroll(delta) == [kind |-> "Scroll", delta |-> delta]

Resize(layout_size, font_measure) ==
    [kind |-> "Resize", layout_size |-> layout_size, font_measure |-> font_measure]

ProcessAlacrittyEvent(event) == [kind |-> "ProcessAlacrittyEvent", event |-> event]

\* enum MouseMode
MouseModes == {"Sgr", "Normal"}

\* enum MouseButton, with the discriminant `button as u8` yields
MouseButton ==
    [LeftButton |-> 0, MiddleButton |-> 1, RightButton |-> 2,
     LeftMove |-> 32, MiddleMove |-> 33, RightMove |-> 34, NoneMove |-> 35,
     ScrollUp |-> 64, ScrollDown |-> 65, Other |-> 99]

\* alacritty_terminal::index::Point: a line (negative in the scrollback)
\* and a column, both zero-based
Point(line, column) == [line |-> line, column |-> column]

MouseReport(mode, button, point, pressed) ==
    [kind |-> "MouseReport", mode |-> mode, button |-> button, point |-> point,
     pressed |-> pressed]

\* the call of Backend::sync, which is no BackendCommand
SyncCall == [kind |-> "sync"]

NoCall == [kind |-> "none"]

\* -------------------------------------------------------------- Action
Ignore == [action |-> "Ignore"]

Redraw == [action |-> "Redraw"]

Shutdown == [action |-> "Shutdown"]

ChangeTitle(title) == [action |-> "ChangeTitle", title |-> title]

\* -------------------------------------------------------- TerminalSize
\* `x as u16` of an f32: truncation towards zero, saturating, NaN to 0
AsU16(v) ==
    IF v <= 0 THEN 0 ELSE Min(v \div FracDen, U16Max)

\* a count that rounds the quotient to the nearest whole number
CountRounded(layout, cell) ==
    IF cell = 0
    THEN (IF layout > 0 THEN U16Max ELSE 0)
    ELSE IF layout <= 0 THEN 0
         ELSE Min((2 * layout + FracDen * cell) \div (2 * FracDen * cell), U16Max)

\* (layout / cell as f32).floor() as u16: a zero cell divides to +inf
\* (saturates), to NaN for a zero layout or to -inf (both 0)
Count(layout, cell) ==
    IF cell = 0
    THEN (IF layout > 0 THEN U16Max ELSE 0)
    ELSE IF layout <= 0 THEN 0 ELSE Min(layout \div (FracDen * cell), U16Max)

TerminalSizeDefault ==
    [cell_width |-> 1, cell_height |-> 1,
     num_cols |-> DefaultCols, num_lines |-> DefaultLines,
     layout_width |-> DefaultCols * FracDen, layout_height |-> DefaultLines * FracDen]

\* impl From<TerminalSize> for WindowSize
WindowSize(size) ==
    [num_lines |-> size.num_lines, num_cols |-> size.num_cols,
     cell_width |-> size.cell_width, cell_height |-> size.cell_height]

\* ------------------------------------------------------ terminal model
\* The grid: its content (the number of the last output fed into it), the
\* scrollback and the view's display offset, and its dimensions
NewGrid(cols, lines) ==
    [content |-> 0, display_offset |-> 0, history |-> 0, cols |-> cols, lines |-> lines]

\* Term::new(config, &terminal_size, event_proxy)
NewTerm(size) ==
    [grid |-> NewGrid(size.num_cols, size.num_lines), mode |-> {"ALTERNATE_SCROLL"}]

\* grid.cursor_cell(): the cell under the cursor, which every output moves
CursorCell(grid) == grid.content

\* Grid::scroll_display(Scroll::Delta(count)): the offset stays within the scrollback
ScrollDelta(grid, count) ==
    [grid EXCEPT !.display_offset = Min(Max(grid.display_offset + count, 0), grid.history)]

\* a scroll to the bottom that leaves the view where it is
ScrollNowhere(grid) == grid

\* Grid::scroll_display(Scroll::Bottom)
ScrollBottom(grid) == [grid EXCEPT !.display_offset = 0]

\* a resize that takes the lines for the columns
TermResizeSwapped(t, cols, lines) ==
    [t EXCEPT !.grid = [t.grid EXCEPT !.cols = lines, !.lines = cols]]

\* Term::resize(TermSize::new(columns, screen_lines))
TermResize(t, cols, lines) ==
    [t EXCEPT !.grid = [t.grid EXCEPT !.cols = cols, !.lines = lines]]

\* The driver's parser writes one output into the grid; when the output
\* scrolls a line off the screen the scrollback grows and a scrolled-back
\* view keeps showing the same lines
GridFeed(grid, scrolled) ==
    LET h == IF scrolled THEN grid.history + 1 ELSE grid.history
    IN  [grid EXCEPT !.content = grid.content + 1,
                     !.history = h,
                     !.display_offset = IF scrolled /\ grid.display_offset # 0
                                        THEN Min(grid.display_offset + 1, h)
                                        ELSE grid.display_offset]

\* ------------------------------------------------------------ Notifier
Input(bytes) == [msg |-> "Input", bytes |-> bytes]

ResizeMsg(window_size) == [msg |-> "Resize", size |-> window_size]

ShutdownMsg == [msg |-> "Shutdown"]

\* a teardown that sends nothing
SendNothing(chan, driver) == chan

\* let _ = self.notifier.0.send(Msg::Shutdown): the send fails, and the
\* failure is ignored, once the driver has exited and dropped the receiver
SendShutdown(chan, driver) ==
    IF driver = "exited" THEN chan ELSE Append(chan, ShutdownMsg)

\* Notifier::notify: an empty input sends nothing
Notify(chan, bytes) == IF bytes = << >> THEN chan ELSE Append(chan, Input(bytes))

\* Notifier::on_resize
OnResize(chan, window_size) == Append(chan, ResizeMsg(window_size))

\* --------------------------------------------------------------- state
VARIABLES
    term,          \* term[b]: the model behind b's Arc<FairMutex<Term>>
    lock,          \* lock[b]: who holds that FairMutex: "free", "caller", "driver"
    size,          \* size[b]: Backend.size
    notifier,      \* notifier[b]: the messages in Backend.notifier's channel
    last_content,  \* last_content[b]: Backend.last_content
    pc,            \* pc[b]: where the calling thread is in process_command / sync
                   \*   (both take &mut self: one call at a time per backend)
    cmd,           \* cmd[b]: the command of the call in progress
    action,        \* action[b]: process_command's local `action`
    cursor,        \* cursor[b]: internal_sync's local `cursor`
    dpc,           \* dpc[b]: where b's I/O driver thread is
    events,        \* events[b]: the queue behind b's EventProxy, as far as a
                   \*   sender sees it: "room", "full" or "closed"
    window_size,   \* window_size[b]: the WindowSize b's Process I/O Channel
                   \*   was last given
    pty,           \* pty[b]: the child process of b's pty
    st,            \* st[b]: where the start_term call that constructs b is
    slot           \* Terminal.0: the Backend the application has stored

vars ==
    <<term, lock, size, notifier, last_content, pc, cmd, action, cursor, dpc,
      events, window_size, pty, st, slot>>

\* what lies outside a Backend's calls and its driver's feed
session == <<events, window_size, pty, st, slot>>

\* Backend::new, up to the TerminalSize
NewSize(font_size) ==
    [TerminalSizeDefault EXCEPT !.cell_width = AsU16(font_size.width),
                                !.cell_height = AsU16(font_size.height)]

\* RenderableContent of a model: what internal_sync copies
Content(grid, cursor_cell) == [grid |-> grid, cursor |-> cursor_cell]

\* The state Backend::new returns, for each backend of B and each font size of fonts
InitOf(B, fonts) ==
    \E font \in [B -> fonts] :
        /\ size = [b \in B |-> NewSize(font[b])]
        /\ term = [b \in B |-> NewTerm(NewSize(font[b]))]
        /\ lock = [b \in B |-> "free"]
        /\ notifier = [b \in B |-> << >>]
        /\ last_content = [b \in B |->
               Content(NewTerm(NewSize(font[b])).grid, CursorCell(NewTerm(NewSize(font[b])).grid))]
        /\ pc = [b \in B |-> "idle"]
        /\ cmd = [b \in B |-> NoCall]
        /\ action = [b \in B |-> Ignore]
        /\ cursor = [b \in B |-> 0]
        /\ dpc = [b \in B |-> "idle"]
        /\ events = [b \in B |-> "room"]
        /\ window_size = [b \in B |-> WindowSize(NewSize(font[b]))]
        /\ pty = [b \in B |-> "running"]
        /\ st = [b \in B |-> "none"]
        /\ slot = "None"

\* ---------------------------------------------------------- EventProxy
\* The queue of tokio::sync::mpsc::channel(100) is held as what a sender
\* finds: "room" while fewer than its capacity of events wait, "full", or
\* "closed" once the receiver is dropped.  An event sent into a queue
\* with room leaves room or fills it (filled).
QueueAfter(queue, filled) ==
    IF queue = "closed" THEN "closed" ELSE IF filled THEN "full" ELSE "room"

\* blocking_send returns once the queue has room (Ok) or is closed (Err,
\* which `let _ =` ignores); on a full queue it waits
CanSend(b) == events[b] # "full"

\* ------------------------------------------------------- FairMutex
\* a mutex that lets a second thread in while the first holds it
LockNotExclusive(b) == TRUE

\* term.lock() returns once nobody holds the mutex
LockFree(b) == lock[b] = "free"

\* ------------------------------------------ process_command and sync
\* entry of process_command(c) or sync(): let mut action = Action::Ignore
Call(b, c) ==
    /\ pc[b] = "idle"
    /\ Len(notifier[b]) < MaxChan
    /\ pc' = [pc EXCEPT ![b] = "lock"]
    /\ cmd' = [cmd EXCEPT ![b] = c]
    /\ action' = [action EXCEPT ![b] = Ignore]
    /\ UNCHANGED <<term, lock, size, notifier, last_content, cursor, dpc>>
    /\ UNCHANGED session

\* let mut term = term.lock()
Lock(b) ==
    /\ pc[b] = "lock"
    /\ LockFree(b)
    /\ lock' = [lock EXCEPT ![b] = "caller"]
    /\ pc' = [pc EXCEPT ![b] = "match"]
    /\ UNCHANGED <<term, size, notifier, last_content, cmd, action, cursor, dpc>>
    /\ UNCHANGED session

\* internal_sync, first statement: the cursor cell is read
ReadCursor(b, t) ==
    /\ cursor' = [cursor EXCEPT ![b] = CursorCell(t.grid)]
    /\ pc' = [pc EXCEPT ![b] = "sync"]

\* a match that has lost its Exit arm
EventActionNoExit(event) ==
    CASE event.event = "Title" -> ChangeTitle(event.title)
      [] OTHER -> Ignore

\* the arms of the ProcessAlacrittyEvent match
EventAction(event) ==
    CASE event.event = "Exit" -> Shutdown
      [] event.event = "Title" -> ChangeTitle(event.title)
      [] OTHER -> Ignore

ArmEvent(b) ==
    /\ pc[b] = "match"
    /\ cmd[b].kind = "ProcessAlacrittyEvent"
    /\ IF cmd[b].event.event = "Wakeup"
       THEN /\ ReadCursor(b, term[b])
            /\ UNCHANGED action
       ELSE /\ action' = [action EXCEPT ![b] = EventAction(cmd[b].event)]
            /\ pc' = [pc EXCEPT ![b] = "ret"]
            /\ UNCHANGED cursor
    /\ UNCHANGED <<term, lock, size, notifier, last_content, cmd, dpc>>
    /\ UNCHANGED session

\* BackendCommand::Write: self.write(input); term.scroll_display(Scroll::Bottom),
\* up to the event Term::scroll_display sends through the listener
ArmWrite(b) ==
    /\ pc[b] = "match"
    /\ cmd[b].kind = "Write"
    /\ notifier' = [notifier EXCEPT ![b] = Notify(notifier[b], cmd[b].bytes)]
    /\ term' = [term EXCEPT ![b] = [term[b] EXCEPT !.grid = ScrollBottom(term[b].grid)]]
    /\ pc' = [pc EXCEPT ![b] = "send"]
    /\ UNCHANGED <<lock, size, last_content, cmd, action, cursor, dpc>>
    /\ UNCHANGED session

\* EventProxy::send_event on the calling thread, the model lock held:
\* Term::scroll_display sends Event::MouseCursorDirty
SendEvent(b, fills) ==
    /\ pc[b] = "send"
    /\ CanSend(b)
    /\ \E filled \in fills :
           events' = [events EXCEPT ![b] = QueueAfter(events[b], filled)]
    /\ pc' = [pc EXCEPT ![b] = "ret"]
    /\ UNCHANGED <<term, lock, size, notifier, last_content, cmd, action, cursor, dpc>>
    /\ UNCHANGED <<window_size, pty, st, slot>>

\* Backend::scroll: the bytes written in alternate-scroll mode
RECURSIVE ScrollContent(_, _)
ScrollContent(n, line_cmd) ==
    IF n = 0 THEN << >> ELSE <<ESC, LetterO, line_cmd>> \o ScrollContent(n - 1, line_cmd)

\* a mode test that looks at the alternate screen alone
AltScreenAlone(t) == "ALT_SCREEN" \in t.mode

\* Backend::scroll: the mode test
AlternateScroll(t) == {"ALTERNATE_SCROLL", "ALT_SCREEN"} \subseteq t.mode

\* BackendCommand::Scroll: self.scroll(&mut term, delta), then the cursor read
ArmScroll(b) ==
    LET delta_value == cmd[b].delta
    IN  /\ pc[b] = "match"
        /\ cmd[b].kind = "Scroll"
        /\ IF delta_value # 0
           THEN IF AlternateScroll(term[b])
                THEN /\ notifier' = [notifier EXCEPT ![b] =
                            Notify(notifier[b],
                                   ScrollContent(Abs(delta_value),
                                                 IF delta_value > 0 THEN LetterA ELSE LetterB))]
                     /\ term' = term
                ELSE /\ term' = [term EXCEPT ![b] =
                            [term[b] EXCEPT !.grid = ScrollDelta(term[b].grid, delta_value)]]
                     /\ notifier' = notifier
           ELSE UNCHANGED <<term, notifier>>
        /\ ReadCursor(b, term'[b])
        /\ UNCHANGED <<lock, size, last_content, cmd, action, dpc>>
        /\ UNCHANGED session

\* format!("{}", n) of a number that is not negative: its decimal digits
RECURSIVE Digits(_)
Digits(n) ==
    IF n < 10 THEN <<Digit0 + n>> ELSE Digits(n \div 10) \o <<Digit0 + (n % 10)>>

\* format!("{}", n): a minus sign before the digits of a negative number
Display(n) == IF n < 0 THEN <<Minus>> \o Digits(-n) ELSE Digits(n)

\* a report that sends the zero-based point as it is
SgrZeroBased(point, button, pressed) ==
    <<ESC, LeftBracket, LessThan>> \o Display(MouseButton[button])
        \o <<Semicolon>> \o Display(point.column)
        \o <<Semicolon>> \o Display(point.line)
        \o <<IF pressed THEN LetterM ELSE LetterSmallM>>

\* sgr_mouse_report: the bytes of format!("\x1b[<{};{};{}{}", ..)
SgrMouseReport(point, button, pressed) ==
    <<ESC, LeftBracket, LessThan>> \o Display(MouseButton[button])
        \o <<Semicolon>> \o Display(point.column + 1)
        \o <<Semicolon>> \o Display(point.line + 1)
        \o <<IF pressed THEN LetterM ELSE LetterSmallM>>

\* a MouseReport arm that reports in every mode
ArmMouseAnyMode(b) ==
    /\ pc[b] = "match"
    /\ cmd[b].kind = "MouseReport"
    /\ notifier' = [notifier EXCEPT ![b] =
           Notify(notifier[b], SgrMouseReport(cmd[b].point, cmd[b].button, cmd[b].pressed))]
    /\ action' = [action EXCEPT ![b] = Redraw]
    /\ pc' = [pc EXCEPT ![b] = "ret"]
    /\ UNCHANGED <<term, lock, size, last_content, cmd, cursor, dpc>>
    /\ UNCHANGED session

\* BackendCommand::MouseReport: the report in Sgr mode, nothing in Normal
\* mode; action = Action::Redraw, and no internal_sync
ArmMouse(b) ==
    /\ pc[b] = "match"
    /\ cmd[b].kind = "MouseReport"
    /\ IF cmd[b].mode = "Sgr"
       THEN notifier' = [notifier EXCEPT ![b] =
                Notify(notifier[b], SgrMouseReport(cmd[b].point, cmd[b].button, cmd[b].pressed))]
       ELSE UNCHANGED notifier
    /\ action' = [action EXCEPT ![b] = Redraw]
    /\ pc' = [pc EXCEPT ![b] = "ret"]
    /\ UNCHANGED <<term, lock, size, last_content, cmd, cursor, dpc>>
    /\ UNCHANGED session

\* a resize that adds the font measure to the cell it has
StoreSizesAdding(s, layout_size, font_measure) ==
    LET s1 == IF layout_size = None THEN s
              ELSE [s EXCEPT !.layout_height = layout_size.some.height,
                             !.layout_width = layout_size.some.width]
    IN  IF font_measure = None THEN s1
        ELSE [s1 EXCEPT !.cell_height = Min(s.cell_height + AsU16(font_measure.some.height), U16Max),
                        !.cell_width = Min(s.cell_width + AsU16(font_measure.some.width), U16Max)]

\* Backend::resize: the TerminalSize with the present fields stored
StoreSizes(s, layout_size, font_measure) ==
    LET s1 == IF layout_size = None THEN s
              ELSE [s EXCEPT !.layout_height = layout_size.some.height,
                             !.layout_width = layout_size.some.width]
    IN  IF font_measure = None THEN s1
        ELSE [s1 EXCEPT !.cell_height = AsU16(font_measure.some.height),
                        !.cell_width = AsU16(font_measure.some.width)]

\* Backend::resize: the recomputed counts
Lines(s) == Count(s.layout_height, s.cell_height)

Cols(s) == Count(s.layout_width, s.cell_width)

\* a test that lets a resize through when one count is positive
AppliesToEither(s) == Lines(s) > 0 \/ Cols(s) > 0

\* a test that lets every resize through
AppliesAlways(s) == TRUE

\* Backend::resize: the test that lets the resize through
Applies(s) == Lines(s) > 0 /\ Cols(s) > 0

\* Backend::resize: self.size when resize returns
Resized(s, layout_size, font_measure) ==
    LET s1 == StoreSizes(s, layout_size, font_measure)
    IN  IF Applies(s1)
        THEN [s1 EXCEPT !.num_lines = Lines(s1), !.num_cols = Cols(s1)]
        ELSE s1

\* BackendCommand::Resize: self.resize(&mut term, ..), then the cursor read
ArmResize(b) ==
    LET s1 == StoreSizes(size[b], cmd[b].layout_size, cmd[b].font_measure)
        s2 == Resized(size[b], cmd[b].layout_size, cmd[b].font_measure)
    IN  /\ pc[b] = "match"
        /\ cmd[b].kind = "Resize"
        /\ size' = [size EXCEPT ![b] = s2]
        /\ IF Applies(s1)
           THEN /\ notifier' = [notifier EXCEPT ![b] = OnResize(notifier[b], WindowSize(s2))]
                /\ window_size' = [window_size EXCEPT ![b] = WindowSize(s2)]
                /\ term' = [term EXCEPT ![b] = TermResize(term[b], s2.num_cols, s2.num_lines)]
           ELSE UNCHANGED <<term, notifier, window_size>>
        /\ ReadCursor(b, term'[b])
        /\ UNCHANGED <<lock, last_content, cmd, action, dpc, events, pty, st, slot>>

\* Backend::sync: internal_sync right after the lock
ArmSync(b) ==
    /\ pc[b] = "match"
    /\ cmd[b].kind = "sync"
    /\ ReadCursor(b, term[b])
    /\ UNCHANGED <<term, lock, size, notifier, last_content, cmd, action, dpc>>
    /\ UNCHANGED session

\* an internal_sync that stores the cursor and forgets the grid
StoreCursorOnly(b) ==
    /\ pc[b] = "sync"
    /\ last_content' = [last_content EXCEPT ![b] = Content(last_content[b].grid, cursor[b])]
    /\ action' = [action EXCEPT ![b] = IF cmd[b].kind = "sync" THEN Ignore ELSE Redraw]
    /\ pc' = [pc EXCEPT ![b] = "ret"]
    /\ UNCHANGED <<term, lock, size, notifier, cmd, cursor, dpc>>
    /\ UNCHANGED session

\* internal_sync, the two stores; in process_command, action = Action::Redraw follows
Store(b) ==
    /\ pc[b] = "sync"
    /\ last_content' = [last_content EXCEPT ![b] = Content(term[b].grid, cursor[b])]
    /\ action' = [action EXCEPT ![b] = IF cmd[b].kind = "sync" THEN Ignore ELSE Redraw]
    /\ pc' = [pc EXCEPT ![b] = "ret"]
    /\ UNCHANGED <<term, lock, size, notifier, cmd, cursor, dpc>>
    /\ UNCHANGED session

\* the call returns `action`; the lock guard is dropped
Return(b) ==
    /\ pc[b] = "ret"
    /\ lock' = [lock EXCEPT ![b] = "free"]
    /\ pc' = [pc EXCEPT ![b] = "idle"]
    /\ cmd' = [cmd EXCEPT ![b] = NoCall]
    /\ action' = [action EXCEPT ![b] = Ignore]
    /\ cursor' = [cursor EXCEPT ![b] = 0]
    /\ UNCHANGED <<term, size, notifier, last_content, dpc>>
    /\ UNCHANGED session

\* ------------------------------------------------------ the I/O driver
\* the event loop has read output of the process and locks the model it
\* shares with the backend
DriverLock(b) ==
    /\ dpc[b] = "idle"
    /\ term[b].grid.content < MaxFeed
    /\ LockFree(b)
    /\ lock' = [lock EXCEPT ![b] = "driver"]
    /\ dpc' = [dpc EXCEPT ![b] = "locked"]
    /\ UNCHANGED <<term, size, notifier, last_content, pc, cmd, action, cursor>>
    /\ UNCHANGED session

\* feed-bytes: one output of the process is parsed into the model
DriverFeed(b, scrolls, modes) ==
    /\ dpc[b] = "locked"
    /\ \E scrolled \in scrolls, mode \in modes :
           term' = [term EXCEPT ![b] = [grid |-> GridFeed(term[b].grid, scrolled), mode |-> mode]]
    /\ dpc' = [dpc EXCEPT ![b] = "fed"]
    /\ UNCHANGED <<lock, size, notifier, last_content, pc, cmd, action, cursor>>
    /\ UNCHANGED session

\* the output the driver has parsed makes the model emit an event
\* (Wakeup, Title, Bell, ..)
DriverEmit(b) ==
    /\ dpc[b] = "fed"
    /\ dpc' = [dpc EXCEPT ![b] = "emit"]
    /\ UNCHANGED <<term, lock, size, notifier, last_content, pc, cmd, action, cursor>>
    /\ UNCHANGED session

\* EventProxy::send_event on the driver thread, the model lock held
DriverSend(b, fills) ==
    /\ dpc[b] = "emit"
    /\ CanSend(b)
    /\ \E filled \in fills :
           events' = [events EXCEPT ![b] = QueueAfter(events[b], filled)]
    /\ dpc' = [dpc EXCEPT ![b] = "sent"]
    /\ UNCHANGED <<term, lock, size, notifier, last_content, pc, cmd, action, cursor>>
    /\ UNCHANGED <<window_size, pty, st, slot>>

\* the event loop drops its guard
DriverUnlock(b) ==
    /\ dpc[b] \in {"fed", "sent"}
    /\ lock' = [lock EXCEPT ![b] = "free"]
    /\ dpc' = [dpc EXCEPT ![b] = "idle"]
    /\ UNCHANGED <<term, size, notifier, last_content, pc, cmd, action, cursor>>
    /\ UNCHANGED session

\* the event loop takes the next message off the Notifier's channel
DriverDrain(b) ==
    /\ notifier[b] # << >>
    /\ notifier' = [notifier EXCEPT ![b] = Tail(notifier[b])]
    /\ UNCHANGED <<term, lock, size, last_content, pc, cmd, action, cursor, dpc>>
    /\ UNCHANGED session

\* the event loop takes the next message off the Notifier's channel and
\* exits on Msg::Shutdown: the loop's pty and receiver go with it
DriverTake(b) ==
    /\ dpc[b] = "idle"
    /\ notifier[b] # << >>
    /\ IF Head(notifier[b]) = ShutdownMsg
       THEN /\ dpc' = [dpc EXCEPT ![b] = "exited"]
            /\ pty' = [pty EXCEPT ![b] = IF pty[b] = "running" THEN "killed" ELSE pty[b]]
            /\ notifier' = [notifier EXCEPT ![b] = << >>]
       ELSE /\ notifier' = [notifier EXCEPT ![b] = Tail(notifier[b])]
            /\ UNCHANGED <<dpc, pty>>
    /\ UNCHANGED <<term, lock, size, last_content, pc, cmd, action, cursor>>
    /\ UNCHANGED <<events, window_size, st, slot>>

\* the child process exits by itself: the event loop reports it through
\* the listener and leaves its loop
ChildExit(b) ==
    /\ dpc[b] = "idle"
    /\ pty[b] = "running"
    /\ LockFree(b)
    /\ CanSend(b)
    /\ pty' = [pty EXCEPT ![b] = "exited"]
    /\ dpc' = [dpc EXCEPT ![b] = "exited"]
    /\ notifier' = [notifier EXCEPT ![b] = << >>]
    /\ UNCHANGED <<term, lock, size, last_content, pc, cmd, action, cursor>>
    /\ UNCHANGED <<events, window_size, st, slot>>

\* ---------------------------------------------------------- start_term
\* the font size start_term passes: Size { width: 0., height: 0. }
StartFont == SizeF(0, 0)

\* Backend::new: tty::new(&pty_config, terminal_size.into(), id)?
SpawnPty(b) ==
    /\ st[b] = "called"
    /\ \E spawned \in BOOLEAN :
           IF spawned
           THEN /\ size' = [size EXCEPT ![b] = NewSize(StartFont)]
                /\ window_size' = [window_size EXCEPT ![b] = WindowSize(NewSize(StartFont))]
                /\ pty' = [pty EXCEPT ![b] = "running"]
                /\ st' = [st EXCEPT ![b] = "pty"]
           ELSE /\ st' = [st EXCEPT ![b] = "failed"]
                /\ UNCHANGED <<size, window_size, pty>>
    /\ UNCHANGED <<term, lock, notifier, last_content, pc, cmd, action, cursor, dpc>>
    /\ UNCHANGED <<events, slot>>

\* a pty that outlives the failed call it was moved into
LeakedPty(p) == p

\* the pty moved into EventLoop::new is dropped when that returns an
\* error: dropping a Pty ends its child
DroppedPty(p) == "killed"

\* Backend::new: Term::new, the initial content, the FairMutex and
\* EventLoop::new(term.clone(), event_proxy, pty, false, false)?
NewEventLoop(b) ==
    /\ st[b] = "pty"
    /\ term' = [term EXCEPT ![b] = NewTerm(size[b])]
    /\ last_content' = [last_content EXCEPT ![b] =
           Content(NewTerm(size[b]).grid, CursorCell(NewTerm(size[b]).grid))]
    /\ lock' = [lock EXCEPT ![b] = "free"]
    /\ \E created \in BOOLEAN :
           IF created
           THEN /\ st' = [st EXCEPT ![b] = "loop"]
                /\ UNCHANGED pty
           ELSE /\ st' = [st EXCEPT ![b] = "failed"]
                /\ pty' = [pty EXCEPT ![b] = DroppedPty(pty[b])]
    /\ UNCHANGED <<size, notifier, pc, cmd, action, cursor, dpc>>
    /\ UNCHANGED <<events, window_size, slot>>

\* Backend::new: the Notifier, pty_event_loop.spawn() and Ok(Self { .. })
SpawnDriver(b) ==
    /\ st[b] = "loop"
    /\ notifier' = [notifier EXCEPT ![b] = << >>]
    /\ dpc' = [dpc EXCEPT ![b] = "idle"]
    /\ pc' = [pc EXCEPT ![b] = "idle"]
    /\ st' = [st EXCEPT ![b] = "built"]
    /\ UNCHANGED <<term, lock, size, last_content, cmd, action, cursor>>
    /\ UNCHANGED <<events, window_size, pty, slot>>

\* term.0.lock().await returns once the render loop, which holds the
\* Terminal's mutex across backend.sync(), has let go of it
TerminalFree == IF slot = "None" THEN TRUE ELSE pc[slot] = "idle"

\* a check that finds the slot free whatever it holds
SlotAlwaysFree == TRUE

\* !term.is_some()
SlotFree == slot = "None"

\* start_term: under the Terminal's mutex, the check of the slot, and
\* either term.replace(backend) or return Err("Terminal already running")
StoreBackend(b) ==
    /\ st[b] = "built"
    /\ TerminalFree
    /\ IF SlotFree
       THEN /\ slot' = b
            /\ st' = [st EXCEPT ![b] = "stored"]
       ELSE /\ st' = [st EXCEPT ![b] = "rejecting"]
            /\ UNCHANGED slot
    /\ UNCHANGED <<term, lock, size, notifier, last_content, pc, cmd, action, cursor, dpc>>
    /\ UNCHANGED <<events, window_size, pty>>

\* impl Drop for Backend, as start_term's local `backend` goes out of
\* scope on the error return
Drop(b) ==
    /\ st[b] = "rejecting"
    /\ pc[b] = "idle"
    /\ notifier' = [notifier EXCEPT ![b] = SendShutdown(notifier[b], dpc[b])]
    /\ pc' = [pc EXCEPT ![b] = "dropped"]
    /\ UNCHANGED <<term, lock, size, last_content, cmd, action, cursor, dpc>>
    /\ UNCHANGED session

\* start_term returns the error: event_rx is dropped after the backend
Rejected(b) ==
    /\ st[b] = "rejecting"
    /\ pc[b] = "dropped"
    /\ events' = [events EXCEPT ![b] = "closed"]
    /\ st' = [st EXCEPT ![b] = "rejected"]
    /\ UNCHANGED <<term, lock, size, notifier, last_content, pc, cmd, action, cursor, dpc>>
    /\ UNCHANGED <<window_size, pty, slot>>

\* the render loop of the stored backend: backend.sync() every 16 ms
RenderSync(b) ==
    /\ st[b] = "stored"
    /\ slot = b
    /\ Call(b, SyncCall)

\* ------------------------------------------------ the event consumer
\* event_rx.recv() takes an event off a full queue
Recv(b) ==
    /\ events[b] = "full"
    /\ st[b] \in {"none", "stored"}
    /\ events' = [events EXCEPT ![b] = "room"]
    /\ UNCHANGED <<term, lock, size, notifier, last_content, pc, cmd, action, cursor, dpc>>
    /\ UNCHANGED <<window_size, pty, st, slot>>

\* the owner of event_rx drops it
Hangup(b) ==
    /\ events[b] # "closed"
    /\ events' = [events EXCEPT ![b] = "closed"]
    /\ UNCHANGED <<term, lock, size, notifier, last_content, pc, cmd, action, cursor, dpc>>
    /\ UNCHANGED <<window_size, pty, st, slot>>

\* ------------------------------------------------------ specification
\* the steps of the thread that calls into backend b
Caller(b, commands) ==
    \/ \E c \in commands \cup {SyncCall} : Call(b, c)
    \/ Lock(b)
    \/ ArmEvent(b)
    \/ ArmWrite(b)
    \/ SendEvent(b, {FALSE})
    \/ ArmScroll(b)
    \/ ArmResize(b)
    \/ ArmSync(b)
    \/ Store(b)
    \/ Return(b)

\* the steps of b's I/O driver thread
Driver(b, scrolls, modes) ==
    \/ DriverLock(b)
    \/ DriverFeed(b, scrolls, modes)
    \/ DriverUnlock(b)
    \/ DriverDrain(b)

\* The font measure and the layout size of the examples: cells of 10.5 x 5
\* pixels, 25.5 x 10 pixels of layout
Font == SizeF(10 * FracDen + 1, 5 * FracDen)

Layout == SizeF(25 * FracDen + 1, 10 * FracDen)

\* One session under every kind of command: every payload, delta and
\* notification, and a resize to the layout of the examples
Commands ==
    {Write(p) : p \in Payloads}
    \cup {Scroll(d) : d \in Deltas}
    \cup {ProcessAlacrittyEvent(e) : e \in Events}
    \cup {Resize(Some(Layout), None)}

Init == InitOf({"b1"}, {Font})

Next == \E b \in {"b1"} : Caller(b, Commands) \/ Driver(b, BOOLEAN, TermModes)

Spec == Init /\ [][Next]_vars

\* One session under every resize: each layout size and font measure,
\* present or absent, from each initial font size, between other commands
ResizeCommands ==
    {Resize(l, f) : l \in {None} \cup {Some(x) : x \in LayoutSizes},
                    f \in {None} \cup {Some(x) : x \in FontSizes}}
    \cup {Write(<<108, 115>>), Scroll(1), ProcessAlacrittyEvent([event |-> "Wakeup"])}

InitResize == InitOf({"b1"}, FontSizes)

NextResize ==
    \E b \in {"b1"} : Caller(b, ResizeCommands) \/ Driver(b, {TRUE}, {{"ALTERNATE_SCROLL"}})

SpecResize == InitResize /\ [][NextResize]_vars

\* Two Backend instances side by side, each under a few commands and a
\* process whose output neither scrolls nor changes the mode
FewCommands ==
    {Write(<<108, 115>>), Scroll(1), Resize(Some(SizeF(0, 0)), None),
     ProcessAlacrittyEvent([event |-> "Exit"])}

InitTwo == InitOf(Backends, {Font})

NextTwo ==
    \E b \in Backends : Caller(b, FewCommands) \/ Driver(b, {FALSE}, {{"ALTERNATE_SCROLL"}})

SpecTwo == InitTwo /\ [][NextTwo]_vars

\* The application: Terminal(Mutex::new(None)) and one start_term call
\* per backend of Backends, in any interleaving; the stored backend under
\* its render loop, each driver under a process that prints and may exit
InitStart ==
    /\ size = [b \in Backends |-> TerminalSizeDefault]
    /\ term = [b \in Backends |-> NewTerm(TerminalSizeDefault)]
    /\ lock = [b \in Backends |-> "free"]
    /\ notifier = [b \in Backends |-> << >>]
    /\ last_content = [b \in Backends |->
           Content(NewTerm(TerminalSizeDefault).grid, CursorCell(NewTerm(TerminalSizeDefault).grid))]
    /\ pc = [b \in Backends |-> "none"]
    /\ cmd = [b \in Backends |-> NoCall]
    /\ action = [b \in Backends |-> Ignore]
    /\ cursor = [b \in Backends |-> 0]
    /\ dpc = [b \in Backends |-> "none"]
    /\ events = [b \in Backends |-> "room"]
    /\ window_size = [b \in Backends |-> WindowSize(TerminalSizeDefault)]
    /\ pty = [b \in Backends |-> "none"]
    /\ st = [b \in Backends |-> "called"]
    /\ slot = "None"

StartTerm(b) ==
    \/ SpawnPty(b)
    \/ NewEventLoop(b)
    \/ SpawnDriver(b)
    \/ StoreBackend(b)
    \/ Drop(b)
    \/ Rejected(b)
    \/ RenderSync(b)
    \/ Lock(b)
    \/ ArmSync(b)
    \/ Store(b)
    \/ Return(b)

DriverStart(b) ==
    \/ DriverLock(b)
    \/ DriverFeed(b, {FALSE}, {{"ALTERNATE_SCROLL"}})
    \/ DriverUnlock(b)
    \/ DriverTake(b)
    \/ ChildExit(b)

NextStart == \E b \in Backends : StartTerm(b) \/ DriverStart(b)

SpecStart == InitStart /\ [][NextStart]_vars

\* One session whose event queue fills and whose receiver may go away,
\* under writes and syncs, the driver's output emitting events.  Each
\* thread keeps going while it can (WF), and the fair lock lets a thread
\* that keeps asking in (SF); nothing makes the consumer keep receiving
LiveBackends == {"b1"}

InitLive == InitOf(LiveBackends, {Font})

CallerLive(b) ==
    \/ \E c \in {Write(<<108, 115>>), SyncCall} : Call(b, c)
    \/ Lock(b)
    \/ ArmWrite(b)
    \/ SendEvent(b, BOOLEAN)
    \/ ArmSync(b)
    \/ Store(b)
    \/ Return(b)

DriverLive(b) ==
    \/ DriverLock(b)
    \/ DriverFeed(b, {FALSE}, {{"ALTERNATE_SCROLL"}})
    \/ DriverEmit(b)
    \/ DriverSend(b, BOOLEAN)
    \/ DriverUnlock(b)
    \/ DriverDrain(b)

NextLive == \E b \in LiveBackends : CallerLive(b) \/ DriverLive(b) \/ Recv(b) \/ Hangup(b)

FairLive ==
    \A b \in LiveBackends :
        /\ SF_vars(Lock(b))
        /\ SF_vars(DriverLock(b))
        /\ WF_vars(ArmWrite(b) \/ SendEvent(b, BOOLEAN) \/ ArmSync(b) \/ Store(b) \/ Return(b))
        /\ WF_vars(DriverFeed(b, {FALSE}, {{"ALTERNATE_SCROLL"}}) \/ DriverUnlock(b))
        /\ WF_vars(DriverSend(b, BOOLEAN))

SpecLive == InitLive /\ [][NextLive]_vars /\ FairLive

\* One session under mouse reports: every button pressed at column 5 of
\* line 10, the left button released there and pressed at column 0 of
\* scrollback line -3 and at column 9 of line 99, the wheel released
\* there, and two reports in Normal mode; the writes, scrolls and resizes
\* between them send nothing to a process whose output does not scroll
MouseCommands ==
    {MouseReport("Sgr", button, Point(10, 5), TRUE) : button \in DOMAIN MouseButton}
    \cup {MouseReport("Sgr", "LeftButton", Point(10, 5), FALSE),
          MouseReport("Sgr", "LeftButton", Point(-3, 0), TRUE),
          MouseReport("Sgr", "LeftButton", Point(99, 9), TRUE),
          MouseReport("Sgr", "ScrollUp", Point(99, 9), FALSE),
          MouseReport("Normal", "LeftButton", Point(10, 5), TRUE),
          MouseReport("Normal", "Other", Point(99, 9), FALSE)}
    \cup {Write(<< >>), Scroll(1), Resize(Some(SizeF(0, 0)), None),
          ProcessAlacrittyEvent([event |-> "Bell"])}

InitMouse == InitOf({"b1"}, {Font})

NextMouse ==
    \E b \in {"b1"} :
        \/ Caller(b, MouseCommands)
        \/ ArmMouse(b)
        \/ Driver(b, {FALSE}, {{"ALTERNATE_SCROLL"}})

SpecMouse == InitMouse /\ [][NextMouse]_vars

\* One session under resizes that carry both sizes, the layout at least
\* as large as the cell: layouts of 800 x 500, 805 x 500, 805.5 x 509.5
\* and 70000 x 500 pixels, cells of 10 x 10 pixels and of 1 x 1
FloorLayouts ==
    {SizeF(800 * FracDen, 500 * FracDen), SizeF(805 * FracDen, 500 * FracDen),
     SizeF(805 * FracDen + 1, 509 * FracDen + 1), SizeF(70000 * FracDen, 500 * FracDen)}

FloorCells == {SizeF(10 * FracDen, 10 * FracDen), SizeF(FracDen, FracDen)}

FloorCommands ==
    {Resize(Some(l), Some(c)) : l \in FloorLayouts, c \in FloorCells}
    \cup {Write(<<108, 115>>), Scroll(1), ProcessAlacrittyEvent([event |-> "Wakeup"])}

InitFloor == InitOf({"b1"}, {Font})

NextFloor ==
    \E b \in {"b1"} : Caller(b, FloorCommands) \/ Driver(b, {FALSE}, {{"ALTERNATE_SCROLL"}})

SpecFloor == InitFloor /\ [][NextFloor]_vars

\* ---------------------------------------------------------------- C1
\* the calling thread is between term.lock() and the drop of the guard
CallerInCS(b) == pc[b] \in {"match", "send", "sync", "ret"}

\* the driver thread is between its lock and its unlock
DriverInCS(b) == dpc[b] \in {"locked", "fed", "emit", "sent"}

\* The caller holds b's lock exactly from the Lock step of a call to its
\* return, and never while the driver is inside the critical section
Serialized(b) ==
    /\ (lock[b] = "caller") = CallerInCS(b)
    /\ (lock[b] = "driver") = DriverInCS(b)
    /\ ~(CallerInCS(b) /\ DriverInCS(b))
    /\ pc[b] = "idle" => lock[b] # "caller"

\* A step that changes b's model is a step of one of b's own two threads,
\* taken inside b's critical section, and changes no other backend's model
OwnModelOnly(b) ==
    term'[b] # term[b] =>
        /\ \/ CallerInCS(b) /\ pc'[b] # pc[b]
           \/ DriverInCS(b) /\ dpc'[b] # dpc[b]
        /\ \A o \in DOMAIN term \ {b} :
               term'[o] = term[o] /\ pc'[o] = pc[o] /\ dpc'[o] = dpc[o]

\* C1: process_command (and sync) takes the model lock once per call and
\* has released it on return; commands, syncs and the driver's feed are
\* never inside one model's critical section together; and a step on one
\* Backend never touches another Backend's model.
C1_LockPerCommand ==
    /\ [](\A b \in DOMAIN pc : Serialized(b))
    /\ [][\A b \in DOMAIN pc : OwnModelOnly(b)]_vars

\* b1's caller waits for the lock while b1's driver feeds, and b2's
\* caller is inside b2's critical section at the same time
C1_Witness ==
    /\ DOMAIN pc = Backends
    /\ pc["b1"] = "lock" /\ dpc["b1"] = "fed" /\ term["b1"].grid.content = 1
    /\ pc["b2"] = "sync" /\ cmd["b2"].kind = "Scroll"

\* ---------------------------------------------------------------- C2
\* C2: the stored snapshot's cursor is the cursor cell of the very grid it
\* is stored with: grid and cursor were copied during one lock hold, never
\* a grid of one model version with a cursor of another.
C2_SnapshotAtomic ==
    \A b \in DOMAIN last_content :
        last_content[b].cursor = CursorCell(last_content[b].grid)

\* a snapshot taken after the first output, while the model has since
\* taken the second and a sync has read its cursor
C2_Witness ==
    /\ last_content["b1"] = Content([term["b1"].grid EXCEPT !.content = 1, !.history = 1], 1)
    /\ term["b1"].grid.content = 2
    /\ term["b1"].grid.history = 1
    /\ pc["b1"] = "sync"

\* ---------------------------------------------------------------- C3
\* the call in progress on b is one that runs internal_sync
Syncs(b) ==
    \/ cmd[b].kind \in {"sync", "Scroll", "Resize"}
    \/ cmd[b].kind = "ProcessAlacrittyEvent" /\ cmd[b].event.event = "Wakeup"

\* the snapshot is the model as it is now
Fresh(b) == last_content[b] = Content(term[b].grid, CursorCell(term[b].grid))

\* C3: when a syncing call returns, the snapshot equals the model as the
\* command left it (not stale), and between the command's arm and the
\* return neither the model nor, after the store, the snapshot changes
\* again (the effect is applied once).
C3_SnapshotReflectsOnce ==
    /\ [](\A b \in DOMAIN pc : pc[b] = "ret" /\ Syncs(b) => Fresh(b))
    /\ [][\A b \in DOMAIN pc :
             pc[b] \in {"sync", "ret"} /\ pc'[b] # pc[b] =>
                 /\ term'[b] = term[b]
                 /\ pc[b] = "ret" => last_content'[b] = last_content[b]]_vars

\* Scroll(1) returns with the view, and the snapshot of it, one line up
\* from the bottom, where the previous snapshot still was
C3_Witness ==
    /\ pc["b1"] = "ret"
    /\ cmd["b1"] = Scroll(1)
    /\ term["b1"].mode = {"ALTERNATE_SCROLL"}
    /\ term["b1"].grid.history = 2
    /\ last_content["b1"].grid.display_offset = 1

\* ---------------------------------------------------------------- C4
\* the call in progress on b delivers the notification `kind`
Delivers(b, kind) ==
    cmd[b].kind = "ProcessAlacrittyEvent" /\ cmd[b].event.event = kind

\* C4: process_command returns Shutdown for an Exit and for a
\* ChildExit(code) notification.
C4_ExitsShutDown ==
    \A b \in DOMAIN pc :
        pc[b] = "ret" /\ (Delivers(b, "Exit") \/ Delivers(b, "ChildExit")) =>
            action[b] = Shutdown

\* ---------------------------------------------------------------- C5
\* the notification kinds process_command has an arm for
Recognized == {"Wakeup", "Exit", "Title"}

\* C5: for a notification, Wakeup returns Redraw with the snapshot
\* re-synchronized, Exit returns Shutdown, Title(t) returns ChangeTitle(t),
\* and any other kind returns Ignore after a call none of whose steps
\* changes the model, the snapshot, the TerminalSize or the channel.
C5_Notifications ==
    /\ [](\A b \in DOMAIN pc :
             pc[b] = "ret" /\ cmd[b].kind = "ProcessAlacrittyEvent" =>
                 /\ Delivers(b, "Wakeup") => action[b] = Redraw /\ Fresh(b)
                 /\ Delivers(b, "Exit") => action[b] = Shutdown
                 /\ Delivers(b, "Title") => action[b] = ChangeTitle(cmd[b].event.title)
                 /\ cmd[b].event.event \notin Recognized => action[b] = Ignore)
    /\ [][\A b \in DOMAIN pc :
             /\ cmd[b].kind = "ProcessAlacrittyEvent"
             /\ cmd[b].event.event \notin Recognized
             /\ pc'[b] # pc[b]
             => /\ term'[b] = term[b]
                /\ last_content'[b] = last_content[b]
                /\ size'[b] = size[b]
                /\ notifier'[b] = notifier[b]]_vars

\* a Wakeup returns Redraw after the second output, the snapshot showing it
C5_Witness ==
    /\ pc["b1"] = "ret"
    /\ Delivers("b1", "Wakeup")
    /\ action["b1"] = Redraw
    /\ last_content["b1"].grid.content = 2

\* ---------------------------------------------------------------- C6
\* the calling thread of b takes the step of the arm of `kind`
ArmStep(b, kind) == pc[b] = "match" /\ cmd[b].kind = kind /\ pc'[b] # pc[b]

\* the bytes of the Input messages of a channel, in order
RECURSIVE BytesOf(_)
BytesOf(chan) ==
    IF chan = << >> THEN << >>
    ELSE (IF Head(chan).msg = "Input" THEN Head(chan).bytes ELSE << >>) \o BytesOf(Tail(chan))

\* C6: the Write arm adds exactly the command's bytes at the end of what
\* the channel holds for the process, leaves the view at the bottom, and
\* the call returns Ignore with the snapshot as it was before the call.
C6_WriteForwards ==
    /\ [][\A b \in DOMAIN pc :
             /\ ArmStep(b, "Write") =>
                    /\ BytesOf(notifier'[b]) = BytesOf(notifier[b]) \o cmd[b].bytes
                    /\ Len(notifier'[b]) <= Len(notifier[b]) + 1
                    /\ term'[b].grid.display_offset = 0
                    /\ term'[b].grid = [term[b].grid EXCEPT !.display_offset = 0]
                    /\ size'[b] = size[b]
             /\ cmd[b].kind = "Write" /\ pc'[b] # pc[b] =>
                    last_content'[b] = last_content[b]]_vars
    /\ [](\A b \in DOMAIN pc :
             pc[b] = "ret" /\ cmd[b].kind = "Write" =>
                 action[b] = Ignore /\ term[b].grid.display_offset = 0)

\* a Write returns with its bytes behind an earlier scroll sequence in the
\* channel and the view at the bottom, the snapshot still scrolled back
C6_Witness ==
    /\ pc["b1"] = "ret"
    /\ cmd["b1"] = Write(<<108, 115>>)
    /\ notifier["b1"] = <<Input(<<ESC, LetterO, LetterA>>), Input(<<108, 115>>)>>
    /\ last_content["b1"].grid.display_offset = 2
    /\ term["b1"].grid.display_offset = 0

\* ---------------------------------------------------------------- C7
\* bytes is n three-byte sequences ESC O line_cmd
IsScrollSequences(bytes, n, line_cmd) ==
    /\ Len(bytes) = 3 * n
    /\ \A i \in 1..n :
           /\ bytes[3 * i - 2] = ESC
           /\ bytes[3 * i - 1] = LetterO
           /\ bytes[3 * i] = line_cmd

\* what a Scroll(delta), delta # 0, does when it is translated for the
\* process (translated) and when it moves the local view (~translated)
ScrollEffect(b, translated) ==
    LET delta == cmd[b].delta
        grid == term[b].grid
    IN  IF translated
        THEN /\ Len(notifier'[b]) = Len(notifier[b]) + 1
             /\ SubSeq(notifier'[b], 1, Len(notifier[b])) = notifier[b]
             /\ notifier'[b][Len(notifier'[b])].msg = "Input"
             /\ IsScrollSequences(notifier'[b][Len(notifier'[b])].bytes, Abs(delta),
                                  IF delta > 0 THEN LetterA ELSE LetterB)
             /\ term'[b] = term[b]
        ELSE /\ term'[b].grid.display_offset =
                    Min(Max(grid.display_offset + delta, 0), grid.history)
             /\ term'[b] = [term[b] EXCEPT !.grid.display_offset = term'[b].grid.display_offset]
             /\ notifier'[b] = notifier[b]

\* C7 as claimed: the alternate-screen mode alone decides that a Scroll
\* is translated into sequences for the process.
C7_AlternateScreenDecides ==
    [][\A b \in DOMAIN pc :
          ArmStep(b, "Scroll") /\ cmd[b].delta # 0 =>
              ScrollEffect(b, "ALT_SCREEN" \in term[b].mode)]_vars

\* C7: Scroll(delta), delta # 0, writes |delta| sequences ESC O A (delta >
\* 0) or ESC O B (delta < 0) to the process and leaves the view alone when
\* the mode holds both ALTERNATE_SCROLL and ALT_SCREEN; otherwise it moves
\* the view by delta, within the scrollback, and writes nothing.  Either
\* way the call returns Redraw with the snapshot re-synchronized.
C7_ScrollTranslation ==
    /\ [][\A b \in DOMAIN pc :
             ArmStep(b, "Scroll") /\ cmd[b].delta # 0 =>
                 ScrollEffect(b, {"ALTERNATE_SCROLL", "ALT_SCREEN"} \subseteq term[b].mode)]_vars
    /\ [](\A b \in DOMAIN pc :
             pc[b] = "ret" /\ cmd[b].kind = "Scroll" => action[b] = Redraw /\ Fresh(b))

\* Scroll(-2) returns in alternate-scroll mode on the alternate screen,
\* two ESC O B in the channel and the view where the snapshot had it
C7_Witness ==
    /\ pc["b1"] = "ret"
    /\ cmd["b1"] = Scroll(-2)
    /\ term["b1"].mode = {"ALTERNATE_SCROLL", "ALT_SCREEN"}
    /\ notifier["b1"] = <<Input(<<ESC, LetterO, LetterB, ESC, LetterO, LetterB>>)>>
    /\ term["b1"].grid.display_offset = 1

\* ---------------------------------------------------------------- C8
\* the pixel fields of a TerminalSize after a Resize(layout_size, font_measure):
\* a present field is taken (a font measure cut to whole pixels), an
\* absent one kept
PixelsAfter(s, layout_size, font_measure) ==
    [layout_width |-> IF layout_size = None THEN s.layout_width ELSE layout_size.some.width,
     layout_height |-> IF layout_size = None THEN s.layout_height ELSE layout_size.some.height,
     cell_width |-> IF font_measure = None THEN s.cell_width
                    ELSE AsU16(font_measure.some.width),
     cell_height |-> IF font_measure = None THEN s.cell_height
                     ELSE AsU16(font_measure.some.height)]

\* the counts recomputed from those pixel fields
ColsAfter(p) == Count(p.layout_width, p.cell_width)

LinesAfter(p) == Count(p.layout_height, p.cell_height)

\* C8: the Resize arm stores the present pixel fields and keeps the absent
\* ones; if and only if both recomputed counts are positive it appends one
\* resize message to the process's channel and resizes the model, both
\* with the recomputed columns and lines; otherwise channel and model are
\* left alone.
C8_ResizeApplies ==
    [][\A b \in DOMAIN pc :
          ArmStep(b, "Resize") =>
              LET p == PixelsAfter(size[b], cmd[b].layout_size, cmd[b].font_measure)
              IN  /\ size'[b].layout_width = p.layout_width
                  /\ size'[b].layout_height = p.layout_height
                  /\ size'[b].cell_width = p.cell_width
                  /\ size'[b].cell_height = p.cell_height
                  /\ IF ColsAfter(p) > 0 /\ LinesAfter(p) > 0
                     THEN /\ notifier'[b] = Append(notifier[b],
                                 ResizeMsg([num_lines |-> LinesAfter(p), num_cols |-> ColsAfter(p),
                                            cell_width |-> p.cell_width,
                                            cell_height |-> p.cell_height]))
                          /\ term'[b].grid.cols = ColsAfter(p)
                          /\ term'[b].grid.lines = LinesAfter(p)
                          /\ size'[b].num_cols = ColsAfter(p)
                          /\ size'[b].num_lines = LinesAfter(p)
                     ELSE /\ notifier'[b] = notifier[b]
                          /\ term'[b] = term[b]]_vars

\* a Resize with the font measure alone (10.5 x 5) has been applied to the
\* default layout of 80 x 50: 8 columns and 10 lines, in the TerminalSize,
\* in the model and in the message to the process
C8_Witness ==
    /\ pc["b1"] = "sync"
    /\ cmd["b1"] = Resize(None, Some(Font))
    /\ size["b1"].num_cols = 8 /\ size["b1"].num_lines = 10
    /\ size["b1"].layout_width = DefaultCols * FracDen
    /\ term["b1"].grid.cols = 8 /\ term["b1"].grid.lines = 10
    /\ notifier["b1"] # << >>
    /\ notifier["b1"][Len(notifier["b1"])] =
           ResizeMsg([num_lines |-> 10, num_cols |-> 8, cell_width |-> 10, cell_height |-> 5])

\* ---------------------------------------------------------------- C9
\* the Resize in progress on b recomputes a zero count
ZeroArea(b) ==
    LET p == PixelsAfter(size[b], cmd[b].layout_size, cmd[b].font_measure)
    IN  ColsAfter(p) = 0 \/ LinesAfter(p) = 0

\* C9: a Resize that recomputes a zero column or line count keeps the
\* counts of the TerminalSize, sends nothing to the process and leaves the
\* model alone; the counts are never zero; and every Resize, applied or
\* not, returns Redraw with the snapshot re-synchronized.
C9_ZeroAreaResize ==
    /\ [][\A b \in DOMAIN pc :
             ArmStep(b, "Resize") /\ ZeroArea(b) =>
                 /\ size'[b].num_cols = size[b].num_cols
                 /\ size'[b].num_lines = size[b].num_lines
                 /\ notifier'[b] = notifier[b]
                 /\ term'[b] = term[b]
                 /\ pc'[b] = "sync"]_vars
    /\ [](\A b \in DOMAIN pc :
             /\ size[b].num_cols > 0 /\ size[b].num_lines > 0
             /\ pc[b] = "ret" /\ cmd[b].kind = "Resize" => action[b] = Redraw /\ Fresh(b))

\* a Resize to a layout 3 pixels wide, narrower than the cell of 10,
\* returns Redraw with the 8 columns and 10 lines of before
C9_Witness ==
    /\ pc["b1"] = "ret"
    /\ cmd["b1"] = Resize(Some(SizeF(3 * FracDen, 30 * FracDen)), None)
    /\ size["b1"].layout_width = 3 * FracDen
    /\ size["b1"].cell_width = 10
    /\ size["b1"].num_cols = 8 /\ size["b1"].num_lines = 10
    /\ action["b1"] = Redraw

\* --------------------------------------------------------------- C10
\* C10: in every state the counts are the floors of layout over cell:
\* num_cols = floor(layout_width / cell_width) and num_lines =
\* floor(layout_height / cell_height) (for a cell that is not zero).
C10_CountsAreFloors ==
    \A b \in DOMAIN size :
        /\ size[b].cell_width > 0 =>
               size[b].num_cols = size[b].layout_width \div (FracDen * size[b].cell_width)
        /\ size[b].cell_height > 0 =>
               size[b].num_lines = size[b].layout_height \div (FracDen * size[b].cell_height)

\* --------------------------------------------------------------- C11
\* the Resize in progress on b carries a layout size and a cell size of
\* whole positive pixels, the layout at least as large as the cell
CarriesWholeCells(b) ==
    /\ cmd[b].layout_size # None /\ cmd[b].font_measure # None
    /\ LET l == cmd[b].layout_size.some
           c == cmd[b].font_measure.some
       IN  /\ c.width > 0 /\ c.width % FracDen = 0
           /\ c.height > 0 /\ c.height % FracDen = 0
           /\ l.width >= c.width /\ l.height >= c.height

\* the counts b's Resize arm stores are the floors of layout over cell
StoresFloors(b) ==
    LET l == cmd[b].layout_size.some
        c == cmd[b].font_measure.some
    IN  /\ size'[b].num_cols = l.width \div c.width
        /\ size'[b].num_lines = l.height \div c.height

\* the cell sizes and both floors of b's Resize fit 16 bits
FitsU16(b) ==
    LET l == cmd[b].layout_size.some
        c == cmd[b].font_measure.some
    IN  /\ c.width \div FracDen <= U16Max /\ c.height \div FracDen <= U16Max
        /\ l.width \div c.width <= U16Max /\ l.height \div c.height <= U16Max

C12_ResizeIdempotent ==
    /\ [][\A b \in DOMAIN pc :
             ArmStep(b, "Resize") =>
                 LET again == Resized(size'[b], cmd[b].layout_size, cmd[b].font_measure)
                 IN  /\ size'[b] = Resized(size[b], cmd[b].layout_size, cmd[b].font_measure)
                     /\ again.num_cols = size'[b].num_cols
                     /\ again.num_lines = size'[b].num_lines
                     /\ again = size'[b]
                     /\ Applies(StoreSizes(size'[b], cmd[b].layout_size, cmd[b].font_measure))
                            = Applies(StoreSizes(size[b], cmd[b].layout_size, cmd[b].font_measure))]_vars
    /\ [](\A b \in DOMAIN pc :
             pc[b] = "ret" /\ cmd[b].kind = "Resize" => action[b] = Redraw)

\* the second of two Resize calls with the font measure of 10.5 x 5
\* alone returns Redraw: two resize messages for the same 8 columns and 10
\* lines wait in the channel
C12_Witness ==
    /\ pc["b1"] = "ret"
    /\ cmd["b1"] = Resize(None, Some(Font))
    /\ action["b1"] = Redraw
    /\ size["b1"].num_cols = 8 /\ size["b1"].num_lines = 10
    /\ notifier["b1"] = <<ResizeMsg(WindowSize(size["b1"])), ResizeMsg(WindowSize(size["b1"]))>>

\* --------------------------------------------------------------- C13
\* the button numbers of the mouse-report protocol
ProtocolNumber(button) ==
    CASE button = "LeftButton" -> 0 [] button = "MiddleButton" -> 1
      [] button = "RightButton" -> 2 [] button = "LeftMove" -> 32
      [] button = "MiddleMove" -> 33 [] button = "RightMove" -> 34
      [] button = "NoneMove" -> 35 [] button = "ScrollUp" -> 64
      [] button = "ScrollDown" -> 65 [] button = "Other" -> 99

\* the number a field of decimal digits stands for
RECURSIVE FieldValue(_)
FieldValue(field) ==
    IF field = << >> THEN 0
    ELSE 10 * FieldValue(SubSeq(field, 1, Len(field) - 1)) + (field[Len(field)] - Digit0)

\* field is the decimal numeral of n: digits only after an optional minus
\* sign, no leading zero, standing for n
IsNumeral(field, n) ==
    LET digits == IF n < 0 THEN Tail(field) ELSE field
    IN  /\ Len(field) >= 1
        /\ n < 0 => field[1] = Minus
        /\ Len(digits) >= 1
        /\ \A i \in 1..Len(digits) : digits[i] \in Digit0..(Digit0 + 9)
        /\ Len(digits) > 1 => digits[1] # Digit0
        /\ FieldValue(digits) = (IF n < 0 THEN -n ELSE n)

\* bytes is ESC [ < Cb ; Cx ; Cy followed by `final`
IsSgrReport(bytes, cb, cx, cy, final) ==
    \E i, j \in 1..Len(bytes) :
        /\ 4 <= i /\ i < j /\ j < Len(bytes)
        /\ SubSeq(bytes, 1, 3) = <<ESC, LeftBracket, LessThan>>
        /\ bytes[i] = Semicolon /\ bytes[j] = Semicolon
        /\ IsNumeral(SubSeq(bytes, 4, i - 1), cb)
        /\ IsNumeral(SubSeq(bytes, i + 1, j - 1), cx)
        /\ IsNumeral(SubSeq(bytes, j + 1, Len(bytes) - 1), cy)
        /\ bytes[Len(bytes)] = final

\* C13: a MouseReport in Sgr mode appends to the process's channel
\* exactly one input, ESC [ < Cb ; Cx ; Cy M when pressed and ... m when
\* released, with Cb the button's protocol number, Cx = column + 1 and
\* Cy = line + 1 in decimal; a left press at column 5 of line 10 is
\* ESC [ < 0 ; 6 ; 11 M.
C13_SgrEncoding ==
    [][\A b \in DOMAIN pc :
          ArmStep(b, "MouseReport") /\ cmd[b].mode = "Sgr" =>
              /\ Len(notifier'[b]) = Len(notifier[b]) + 1
              /\ SubSeq(notifier'[b], 1, Len(notifier[b])) = notifier[b]
              /\ notifier'[b][Len(notifier'[b])].msg = "Input"
              /\ IsSgrReport(notifier'[b][Len(notifier'[b])].bytes,
                             ProtocolNumber(cmd[b].button),
                             cmd[b].point.column + 1, cmd[b].point.line + 1,
                             IF cmd[b].pressed THEN LetterM ELSE LetterSmallM)
              /\ cmd[b] = MouseReport("Sgr", "LeftButton", Point(10, 5), TRUE) =>
                     notifier'[b][Len(notifier'[b])].bytes =
                         <<27, 91, 60, 48, 59, 54, 59, 49, 49, 77>>]_vars

\* the wheel-up release at column 9 of line 99 has been reported as
\* ESC [ < 64 ; 10 ; 100 m behind the left press at scrollback line -3,
\* ESC [ < 0 ; 1 ; -2 M
C13_Witness ==
    /\ pc["b1"] = "ret"
    /\ cmd["b1"] = MouseReport("Sgr", "ScrollUp", Point(99, 9), FALSE)
    /\ notifier["b1"] =
           <<Input(<<27, 91, 60, 48, 59, 49, 59, 45, 50, 77>>),
             Input(<<27, 91, 60, 54, 52, 59, 49, 48, 59, 49, 48, 48, 109>>)>>

\* --------------------------------------------------------------- C14
\* C14: the MouseReport arm sets the action to Redraw in every mode and
\* for every button, point and pressed flag, and the call returns it; in
\* Normal mode the arm leaves the channel to the process as it is; and no
\* step of a MouseReport call changes the model, the TerminalSize or the
\* stored snapshot.
C14_MouseReportFrame ==
    /\ [][\A b \in DOMAIN pc :
             /\ ArmStep(b, "MouseReport") =>
                    /\ action'[b] = Redraw
                    /\ pc'[b] = "ret"
                    /\ cmd[b].mode = "Normal" => notifier'[b] = notifier[b]
             /\ cmd[b].kind = "MouseReport" /\ pc'[b] # pc[b] =>
                    /\ term'[b] = term[b]
                    /\ size'[b] = size[b]
                    /\ last_content'[b] = last_content[b]]_vars
    /\ [](\A b \in DOMAIN pc :
             pc[b] = "ret" /\ cmd[b].kind = "MouseReport" => action[b] = Redraw)

\* a Normal-mode report returns Redraw with nothing in the channel, the
\* snapshot still without the two outputs the model has taken
C14_Witness ==
    /\ pc["b1"] = "ret"
    /\ cmd["b1"] = MouseReport("Normal", "Other", Point(99, 9), FALSE)
    /\ action["b1"] = Redraw
    /\ notifier["b1"] = << >>
    /\ term["b1"].grid.content = 2
    /\ last_content["b1"].grid.content = 0

\* --------------------------------------------------------------- C19
\* the Resize messages of a channel
ResizesOf(chan) == SelectSeq(chan, LAMBDA m : m.msg = "Resize")

\* C19: in every state the columns and lines of the TerminalSize, of the
\* WindowSize last given to the Process I/O Channel (at spawn or by a
\* resize message, the latest of which carries it) and of the model's
\* grid are equal, so that no step changes one without the other two.
C19_GeometryConsistent ==
    \A b \in DOMAIN size :
        /\ size[b].num_cols = window_size[b].num_cols
        /\ size[b].num_lines = window_size[b].num_lines
        /\ size[b].num_cols = term[b].grid.cols
        /\ size[b].num_lines = term[b].grid.lines
        /\ ResizesOf(notifier[b]) # << >> =>
               ResizesOf(notifier[b])[Len(ResizesOf(notifier[b]))].size = window_size[b]

\* after a Resize to cells of 10.5 x 5 has set all three to 8 columns and
\* 10 lines, a Resize to a layout of 0 x 0 returns with all three as they
\* were
C19_Witness ==
    /\ pc["b1"] = "ret"
    /\ cmd["b1"] = Resize(Some(SizeF(0, 0)), None)
    /\ size["b1"].layout_width = 0
    /\ size["b1"].num_cols = 8 /\ size["b1"].num_lines = 10
    /\ window_size["b1"].num_cols = 8 /\ window_size["b1"].num_lines = 10
    /\ term["b1"].grid.cols = 8 /\ term["b1"].grid.lines = 10

\* --------------------------------------------------------------- C15
\* a thread of b is at the listener's send, the model lock held
Sending(b) == pc[b] = "send" \/ dpc[b] = "emit"

\* C15: a thread at the listener's send is never held up there: on a full
\* or a closed queue the send returns at once, so that no sender waits
\* for the consumer while it holds the model lock.
C15_SendNeverBlocks ==
    \A b \in DOMAIN pc : Sending(b) => CanSend(b)

Shutdowns(chan) == Len(SelectSeq(chan, LAMBDA m : m = ShutdownMsg))

\* the step destroys backend b
Drops(b) == pc[b] # "dropped" /\ pc'[b] = "dropped"

\* C17: the step that destroys a Backend happens between calls, adds
\* exactly one shutdown message to the channel of a driver that is still
\* there and nothing (the failed send is ignored) once the driver has
\* exited, and touches neither the model's lock, the driver nor the event
\* queue; no other step sends a shutdown message, so no channel ever
\* holds two; a destroyed Backend stays destroyed; and the step needs
\* nothing another thread holds: it can be taken whenever the owner is
\* about to drop the Backend.
C17_Teardown ==
    /\ [][\A b \in DOMAIN pc :
             /\ Drops(b) =>
                    /\ pc[b] = "idle"
                    /\ IF dpc[b] = "exited"
                       THEN notifier'[b] = notifier[b]
                       ELSE notifier'[b] = Append(notifier[b], ShutdownMsg)
                    /\ lock' = lock /\ dpc' = dpc /\ events' = events /\ term' = term
             /\ Shutdowns(notifier'[b]) > Shutdowns(notifier[b]) => Drops(b)
             /\ pc[b] = "dropped" => pc'[b] = "dropped"]_vars
    /\ [](\A b \in DOMAIN pc :
             /\ Shutdowns(notifier[b]) <= 1
             /\ Shutdowns(notifier[b]) = 1 => pc[b] = "dropped" /\ dpc[b] # "exited"
             /\ st[b] = "rejecting" /\ pc[b] = "idle" => ENABLED Drop(b))

\* b2 has been destroyed while its driver held the model lock in a feed:
\* the shutdown message waits in the channel
C17_Witness ==
    /\ pc["b2"] = "dropped"
    /\ dpc["b2"] = "fed"
    /\ lock["b2"] = "driver"
    /\ notifier["b2"] = <<ShutdownMsg>>

\* --------------------------------------------------------------- C18
\* the Backend::new of b has returned Ok
Constructed(b) == st[b] \in {"built", "stored", "rejecting", "rejected"}

\* C18: once Backend::new has returned an error there is no Backend, no
\* driver and no running process of that call, whichever step failed;
\* once it has returned Ok there is a Backend whose process was spawned,
\* whose driver was started and whose snapshot is the new model's; and a
\* step at which construction fails leaves no process running.
C18_AllOrNothing ==
    /\ [](\A b \in DOMAIN st :
             /\ st[b] = "failed" =>
                    pc[b] = "none" /\ dpc[b] = "none" /\ pty[b] \in {"none", "killed"}
             /\ Constructed(b) =>
                    pc[b] # "none" /\ dpc[b] # "none" /\ pty[b] # "none"
             /\ st[b] = "built" =>
                    /\ pc[b] = "idle"
                    /\ last_content[b] =
                           Content(NewGrid(DefaultCols, DefaultLines), 0)
                    /\ size[b].num_cols = DefaultCols /\ size[b].num_lines = DefaultLines
                    /\ term[b].grid.cols = DefaultCols /\ term[b].grid.lines = DefaultLines
             /\ (pty[b] = "running" \/ dpc[b] \notin {"none", "exited"}) =>
                    st[b] \in {"pty", "loop"} \/ Constructed(b))
    /\ [][\A b \in DOMAIN st :
             st[b] # "failed" /\ st'[b] = "failed" =>
                 pty'[b] # "running" /\ dpc'[b] = "none" /\ pc'[b] = "none"]_vars

\* b1's construction has failed at EventLoop::new, after its process was
\* spawned: the process is gone; b2's construction went through
C18_Witness ==
    /\ st["b1"] = "failed"
    /\ pty["b1"] = "killed"
    /\ st["b2"] = "stored"
    /\ pty["b2"] = "running"
    /\ dpc["b2"] = "locked"

\* --------------------------------------------------------------- C20
\* C20: the slot holds the one Backend whose start_term stored it, and
\* once it holds one it holds that one for good; a start_term call that
\* finds the slot taken is the one that returns "Terminal already
\* running", and when it has returned, its own Backend is destroyed, with
\* the shutdown message sent to its driver unless that had exited, while
\* the stored Backend is neither destroyed nor sent a shutdown.
C20_SingleSession ==
    /\ [](\A b \in DOMAIN st :
             /\ (slot = b) = (st[b] = "stored")
             /\ st[b] \in {"rejecting", "rejected"} => slot \notin {"None", b}
             /\ st[b] = "rejected" =>
                    /\ pc[b] = "dropped"
                    /\ dpc[b] = "exited" \/ notifier[b] = <<ShutdownMsg>>
                    /\ events[b] = "closed"
             /\ st[b] = "stored" =>
                    /\ pc[b] \notin {"none", "dropped"}
                    /\ Shutdowns(notifier[b]) = 0)
    /\ [](Cardinality({b \in DOMAIN st : st[b] = "stored"}) <= 1)
    /\ [][/\ slot # "None" => slot' = slot
          /\ \A b \in DOMAIN st :
                 st[b] = "built" /\ st'[b] # "built" =>
                     IF slot = "None"
                     THEN st'[b] = "stored" /\ slot' = b
                     ELSE st'[b] = "rejecting" /\ slot' = slot]_vars

\* b2's start_term has returned the error while b1, stored, is inside a
\* sync of its render loop: b2 is destroyed, its shutdown message sent
C20_Witness ==
    /\ slot = "b1"
    /\ st["b1"] = "stored"
    /\ pc["b1"] = "sync"
    /\ st["b2"] = "rejected"
    /\ pc["b2"] = "dropped"
    /\ notifier["b2"] = <<ShutdownMsg>>
    /\ pty["b2"] = "running"

====
